---- MODULE Spec2Model ----
(***************************************************************************)
(* A model of scripts/bes.py, the integrity checker for BES model files:   *)
(* the block scanner parse_blocks with its per-scope presence rules, the   *)
(* thirteen block handlers it dispatches to, processFile and the batch     *)
(* loop of the command line.  Buffers are sequences of bytes (0..255);     *)
(* slices follow Python's clamping rules; struct.unpack raises when the    *)
(* buffer is shorter than the format.                                      *)
(***************************************************************************)
EXTENDS Integers, Sequences, FiniteSets, TLC

VARIABLES
    stack,      \* the active parse_blocks calls, outermost first
    log,        \* the diagnostic sink plus the trace of calls, in order
    status,     \* "idle" | "running" | "returned" | "raised"
    nextCall,   \* identifier given to the next parse_blocks call
    calls,      \* the arguments of every parse_blocks call made, by identifier
    argv,       \* the command line: files to check, file to extract
    fileNo,     \* number of processFile calls started
    proc,       \* "idle" | "main" | "scanning" | "exited" | "crashed"
    outcomes,   \* per processFile call: how it ended
    harg,       \* a handler's input: label and payload
    hres        \* the handler's result, or the empty sequence before the call

vars == <<stack, log, status, nextCall, calls, argv, fileNo, proc, outcomes, harg, hres>>

(***************************************************************************)
(* BES.BlockID and BES.BlockPresence                                       *)
(***************************************************************************)
Object == 1
Unk30 == 48
Mesh == 49
Vertices == 50
Faces == 51
Properties == 52
Unk35 == 53
Unk36 == 54
Unk38 == 56
UserInfo == 112
Material == 4096
Bitmap == 4097
PteroMat == 4098

OptSingle == 0
OptMultiple == 1
ReqSingle == 2
ReqMultiple == 3

KnownLabels ==
    {Object, Unk30, Mesh, Vertices, Faces, Properties, Unk35, Unk36, Unk38,
     UserInfo, Material, Bitmap, PteroMat}

BitmapMaps ==
    <<"Diffuse Color", "Displacement", "Bump", "Ambient Color",
      "Specular Color", "Specular Level", "Glossiness", "Self-Illumination",
      "UNKNOWN", "Filter Color", "Reflection", "Refraction">>

PteroTexs ==
    <<"Diffuse #1 - Ground", "Diffuse #2 - Multitexture", "Diffuse #3 - Overlay",
      "Environment #1", "LightMap", "UNKNOWN",
      "Environment #2", "LightMap (Engine Lights)">>

PteroOffset == 16

HeaderSig == <<66, 69, 83, 0>>
HeaderVer == <<48, 49, 48, 48, 0>>
HeaderLen == 16
PreviewEnd == 12304

\* Bounds of the model
MaxIters == 8
MaxSiblings == 3
NestLevels == 65
MaxFiles == 2
MaxCount == 2
MaxVertexBytes == 66
MaxCoord == 15

(***************************************************************************)
(* Bytes, slices and struct.unpack                                         *)
(***************************************************************************)
Min(a, b) == IF a < b THEN a ELSE b

\* data[a:b] for non-negative a and b
Slice(data, a, b) ==
    LET hi == Min(b, Len(data))
    IN  IF a >= hi THEN <<>> ELSE SubSeq(data, a + 1, hi)

\* data[a:]
From(data, a) == Slice(data, a, Len(data))

\* struct.Struct(fmt).unpack_from(data[:st_len]) succeeds
Unpackable(st_len, data) == Len(Slice(data, 0, st_len)) >= st_len

\* the little-endian 32-bit field at byte offset off
U32At(data, off) ==
    data[off + 1] + 256 * data[off + 2] + 65536 * data[off + 3]
        + 16777216 * data[off + 4]

RECURSIVE Bit(_, _)
Bit(n, i) == IF i = 0 THEN n % 2 ELSE Bit(n \div 2, i - 1)

RECURSIVE BitAnd(_, _)
BitAnd(a, b) ==
    IF a = 0 \/ b = 0 THEN 0
    ELSE (a % 2) * (b % 2) + 2 * BitAnd(a \div 2, b \div 2)

\* str(pchar, 'ascii') decodes
IsAscii(pchar) == \A i \in 1..Len(pchar) : pchar[i] < 128

(***************************************************************************)
(* Handler results: the exception raised ("none" when the handler          *)
(* returns), the warnings and errors logged in order, the tokens appended  *)
(* to the verbose trace line, and the nested parse_blocks call, if any.    *)
(***************************************************************************)
Res(raised, msgs, notes, child) ==
    [raised |-> raised, msgs |-> msgs, notes |-> notes, child |-> child]

Returns(msgs, notes) == Res("none", msgs, notes, <<>>)

Raises(exc, msgs) == Res(exc, msgs, <<>>, <<>>)

Recurse(blocks, data) ==
    Res("none", <<>>, <<>>, <<[blocks |-> blocks, data |-> data]>>)

ObjectSchema ==
    (Object :> OptMultiple) @@ (Unk30 :> OptSingle) @@ (Properties :> OptSingle)
        @@ (Unk35 :> OptSingle) @@ (Unk38 :> OptSingle) @@ (Material :> OptSingle)

Unk30Schema ==
    (Mesh :> OptMultiple) @@ (Properties :> ReqSingle) @@ (Unk35 :> ReqSingle)
        @@ (Unk36 :> OptSingle)

MeshSchema == (Vertices :> ReqSingle) @@ (Faces :> ReqSingle)

MaterialSchema == (Bitmap :> OptMultiple) @@ (PteroMat :> OptMultiple)

RootSchema == (Object :> ReqSingle) @@ (UserInfo :> ReqSingle)

parse_block_object(data) ==
    IF ~Unpackable(8, data) THEN Raises("struct.error", <<>>)
    ELSE LET name_size == U32At(data, 4)
         IN  IF ~Unpackable(name_size, From(data, 8))
             THEN Raises("struct.error", <<>>)
             ELSE IF ~IsAscii(Slice(data, 8, 8 + name_size))
             THEN Raises("UnicodeDecodeError", <<>>)
             ELSE Recurse(ObjectSchema, From(data, 8 + name_size))

parse_block_unk30(data) ==
    IF ~Unpackable(4, data) THEN Raises("struct.error", <<>>)
    ELSE Recurse(Unk30Schema, From(data, 4))

parse_block_mesh(data) ==
    IF ~Unpackable(4, data) THEN Raises("struct.error", <<>>)
    ELSE Recurse(MeshSchema, From(data, 4))

\* parse_block_vertices with the size check made whatever the stride check found
parse_block_vertices_both(data) ==
    IF ~Unpackable(12, data) THEN Raises("struct.error", <<>>)
    ELSE LET count  == U32At(data, 0)
             size   == U32At(data, 4)
             vType  == U32At(data, 8)
             texCnt == BitAnd(vType \div 256, 255)
         IN  Returns((IF 24 + 8 * texCnt # size
                      THEN <<"vertex_size">> ELSE <<>>)
                     \o (IF Len(From(data, 12)) # size * count
                         THEN <<"block_size">> ELSE <<>>),
                     <<>>)

parse_block_vertices(data) ==
    IF ~Unpackable(12, data) THEN Raises("struct.error", <<>>)
    ELSE LET count  == U32At(data, 0)
             size   == U32At(data, 4)
             vType  == U32At(data, 8)
             texCnt == BitAnd(vType \div 256, 255)
         IN  IF 24 + 8 * texCnt # size
             THEN Returns(<<"vertex_size">>, <<>>)
             ELSE IF Len(From(data, 12)) # size * count
             THEN Returns(<<"block_size">>, <<>>)
             ELSE Returns(<<>>, <<>>)

parse_block_faces(data) ==
    IF ~Unpackable(4, data) THEN Raises("struct.error", <<>>)
    ELSE LET count == U32At(data, 0)
         IN  IF Len(From(data, 4)) # count * 12
             THEN Returns(<<"block_size">>, <<>>)
             ELSE Returns(<<>>, <<>>)

parse_block_properties(data) ==
    IF ~Unpackable(4, data) THEN Raises("struct.error", <<>>)
    ELSE LET count == U32At(data, 0)
         IN  IF ~Unpackable(count, From(data, 4))
             THEN Raises("struct.error", <<>>)
             ELSE IF ~IsAscii(Slice(data, 4, 4 + count))
             THEN Raises("UnicodeDecodeError", <<>>)
             ELSE IF count + 4 # Len(data)
             THEN Returns(<<"block_size">>, <<>>)
             ELSE Returns(<<>>, <<>>)

parse_block_unk35(data) ==
    IF ~Unpackable(12, data) THEN Raises("struct.error", <<>>)
    ELSE IF Len(data) # 100 THEN Returns(<<"block_size">>, <<>>)
    ELSE Returns(<<>>, <<>>)

parse_block_unk36(data) == Returns(<<>>, <<>>)

parse_block_unk38(data) == Returns(<<>>, <<>>)

parse_block_user_info(data) ==
    IF ~Unpackable(12, data) THEN Raises("struct.error", <<>>)
    ELSE LET name_size    == U32At(data, 0)
             comment_size == U32At(data, 4)
         IN  IF ~Unpackable(name_size, From(data, 12))
             THEN Raises("struct.error", <<>>)
             ELSE IF ~Unpackable(comment_size, From(data, 76))
             THEN Raises("struct.error", <<>>)
             ELSE IF ~IsAscii(Slice(data, 12, 12 + name_size))
                     \/ ~IsAscii(Slice(data, 76, 76 + comment_size))
             THEN Raises("UnicodeDecodeError", <<>>)
             ELSE Returns(
                     (IF name_size > 64 THEN <<"name_length">> ELSE <<>>)
                     \o (IF Len(data) # 76 + comment_size
                         THEN <<"block_size">> ELSE <<>>),
                     <<>>)

parse_block_material(data) ==
    IF ~Unpackable(4, data) THEN Raises("struct.error", <<>>)
    ELSE Recurse(MaterialSchema, From(data, 4))

(***************************************************************************)
(* parse_block_bitmap: the U/V coordinate settings of one map record, the  *)
(* loop over the 32 bits of bType, and the handler.                        *)
(***************************************************************************)
CoordU(coord) ==
    IF BitAnd(coord, 5) # 0
    THEN IF BitAnd(coord, 5) = 1 THEN Returns(<<>>, <<"U tile">>)
         ELSE IF BitAnd(coord, 5) = 4 THEN Returns(<<>>, <<"U mirror">>)
         ELSE Returns(<<"unknown_coord">>, <<>>)
    ELSE Returns(<<>>, <<>>)

CoordV(coord) ==
    IF BitAnd(coord, 10) # 0
    THEN IF BitAnd(coord, 10) = 2 THEN Returns(<<>>, <<"V tile">>)
         ELSE IF BitAnd(coord, 10) = 10 THEN Returns(<<>>, <<"V mirror">>)
         ELSE Returns(<<"unknown_coord">>, <<>>)
    ELSE Returns(<<>>, <<>>)

CoordSettings(coord) ==
    Returns(CoordU(coord).msgs \o CoordV(coord).msgs,
            CoordU(coord).notes \o CoordV(coord).notes)

\* One entry of records per map record decoded: its coord and what the
\* coordinate classification produced for it.
RECURSIVE BitmapLoop(_, _, _, _, _, _, _)
BitmapLoop(data, bType, mapID, ptr, msgs, notes, records) ==
    IF mapID = 32
    THEN [raised |-> "none", ptr |-> ptr, msgs |-> msgs, notes |-> notes,
          records |-> records]
    ELSE IF Bit(bType, mapID) = 0
    THEN BitmapLoop(data, bType, mapID + 1, ptr, msgs, notes, records)
    ELSE IF mapID >= Len(BitmapMaps)
    THEN BitmapLoop(data, bType, mapID + 1, ptr,
                    msgs \o <<"unknown_bitmap">>, notes, records)
    ELSE LET m1 == msgs \o (IF BitmapMaps[mapID + 1] = "UNKNOWN"
                            THEN <<"undocumented_bitmap">> ELSE <<>>)
             failed(exc) == [raised |-> exc, ptr |-> ptr, msgs |-> m1,
                             notes |-> notes, records |-> records]
         IN  IF ~Unpackable(8, From(data, ptr)) THEN failed("struct.error")
             ELSE LET name_size == U32At(data, ptr)
                      coord     == U32At(data, ptr + 4)
                      c         == CoordSettings(coord)
                  IN  IF ~Unpackable(name_size, From(data, ptr + 8))
                      THEN failed("struct.error")
                      ELSE IF ~IsAscii(Slice(data, ptr + 8, ptr + 8 + name_size))
                      THEN failed("UnicodeDecodeError")
                      ELSE BitmapLoop(data, bType, mapID + 1,
                               ptr + 8 + name_size,
                               m1 \o c.msgs,
                               notes \o <<BitmapMaps[mapID + 1]>> \o c.notes,
                               Append(records,
                                   [coord |-> coord, msgs |-> c.msgs,
                                    notes |-> c.notes]))

parse_block_bitmap(data) ==
    IF ~Unpackable(12, data) THEN Raises("struct.error", <<>>) @@ [records |-> <<>>]
    ELSE LET r == BitmapLoop(data, U32At(data, 8), 0, 12, <<>>, <<>>, <<>>)
         IN  IF r.raised # "none"
             THEN Raises(r.raised, r.msgs) @@ [records |-> r.records]
             ELSE Returns(r.msgs \o (IF r.ptr # Len(data)
                                     THEN <<"block_size">> ELSE <<>>),
                          r.notes) @@ [records |-> r.records]

(***************************************************************************)
(* parse_block_ptero_mat and BES.PteroMat.parseTexture                     *)
(***************************************************************************)
parseTexture(data, texID) ==
    IF ~Unpackable(8, data)
    THEN [raised |-> "struct.error", size |-> 0, msgs |-> <<>>, notes |-> <<>>]
    ELSE LET coord     == U32At(data, 0)
             name_size == U32At(data, 4)
             m == (IF PteroTexs[texID - PteroOffset + 1] = "UNKNOWN"
                   THEN <<"undocumented_bitmap">> ELSE <<>>)
                  \o (IF coord \div (2 ^ PteroOffset) # 2 ^ (texID - PteroOffset)
                      THEN <<"texture_type">> ELSE <<>>)
                  \o (IF BitAnd(coord, 65532) # 0
                      THEN <<"texture_bits">> ELSE <<>>)
         IN  IF ~Unpackable(name_size, From(data, 8))
             THEN [raised |-> "struct.error", size |-> 0, msgs |-> <<>>,
                   notes |-> <<>>]
             ELSE IF ~IsAscii(Slice(data, 8, 8 + name_size))
             THEN [raised |-> "UnicodeDecodeError", size |-> 0, msgs |-> m,
                   notes |-> <<>>]
             ELSE [raised |-> "none", size |-> 8 + name_size, msgs |-> m,
                   notes |-> <<PteroTexs[texID - PteroOffset + 1]>>
                       \o (IF BitAnd(coord, 1) # 0 THEN <<"U tile">> ELSE <<>>)
                       \o (IF BitAnd(coord, 2) # 0 THEN <<"V tile">> ELSE <<>>)]

RECURSIVE PteroLoop(_, _, _, _, _, _)
PteroLoop(data, pType, texID, ptr, msgs, notes) ==
    IF texID = 32
    THEN [raised |-> "none", ptr |-> ptr, msgs |-> msgs, notes |-> notes]
    ELSE IF Bit(pType, texID) = 0
    THEN PteroLoop(data, pType, texID + 1, ptr, msgs, notes)
    ELSE IF texID >= PteroOffset /\ texID < PteroOffset + Len(PteroTexs)
    THEN LET t == parseTexture(From(data, ptr), texID)
         IN  IF t.raised # "none"
             THEN [raised |-> t.raised, ptr |-> ptr, msgs |-> msgs \o t.msgs,
                   notes |-> notes]
             ELSE PteroLoop(data, pType, texID + 1, ptr + t.size,
                            msgs \o t.msgs, notes \o t.notes)
    ELSE PteroLoop(data, pType, texID + 1, ptr,
                   msgs \o <<"unknown_texture">>, notes)

parse_block_ptero_mat(data) ==
    IF ~Unpackable(20, data) THEN Raises("struct.error", <<>>)
    ELSE IF ~Unpackable(4, From(data, 20)) THEN Raises("struct.error", <<>>)
    ELSE LET tSides    == U32At(data, 0)
             pType     == U32At(data, 4)
             name_size == U32At(data, 20)
             m == (IF BitAnd(tSides, 268435454) # 0
                   THEN <<"transparent_sides">> ELSE <<>>)
                  \o (IF Slice(data, 10, 12) # <<0, 0>>
                      THEN <<"collision_zeros">> ELSE <<>>)
                  \o (IF Slice(data, 18, 20) # <<0, 0>>
                      THEN <<"vegetation_zeros">> ELSE <<>>)
         IN  IF ~Unpackable(name_size, From(data, 24))
             THEN Raises("struct.error", <<>>)
             ELSE IF ~IsAscii(Slice(data, 24, 24 + name_size))
             THEN Raises("UnicodeDecodeError", m)
             ELSE LET r == PteroLoop(data, pType, 0, 24 + name_size, m, <<>>)
                  IN  IF r.raised # "none" THEN Raises(r.raised, r.msgs)
                      ELSE Returns(r.msgs \o (IF r.ptr # Len(data)
                                              THEN <<"block_size">> ELSE <<>>),
                                   r.notes)

(***************************************************************************)
(* process_block_by_label: the handler of a known label; for any other     *)
(* label the "Unknown block" warning and the hex dump of the payload.      *)
(***************************************************************************)
process_block_by_label(label, subblock) ==
    CASE label = Object     -> parse_block_object(subblock)
      [] label = Unk30      -> parse_block_unk30(subblock)
      [] label = Mesh       -> parse_block_mesh(subblock)
      [] label = Vertices   -> parse_block_vertices(subblock)
      [] label = Faces      -> parse_block_faces(subblock)
      [] label = Properties -> parse_block_properties(subblock)
      [] label = Unk35      -> parse_block_unk35(subblock)
      [] label = Unk36      -> parse_block_unk36(subblock)
      [] label = Unk38      -> parse_block_unk38(subblock)
      [] label = UserInfo   -> parse_block_user_info(subblock)
      [] label = Material   -> parse_block_material(subblock)
      [] label = Bitmap     -> parse_block_bitmap(subblock)
      [] label = PteroMat   -> parse_block_ptero_mat(subblock)
      [] OTHER              -> Returns(<<"unknown_block">>, <<>>)

(***************************************************************************)
(* parse_blocks.  A frame is one active call: its arguments (blocks, data, *)
(* index), its locals (start, blocks_parsed, label, size) and, for the     *)
(* record, the identifier of the call and the iterations it has run.       *)
(***************************************************************************)
Frame(call, blocks, data, index) ==
    [call |-> call, blocks |-> blocks, data |-> data, index |-> index,
     start |-> 0, blocks_parsed |-> [l \in DOMAIN blocks |-> FALSE],
     label |-> -1, size |-> 0, iters |-> 0]

\* One entry of the log: a finding sent to the diagnostic sink, or a step
\* of the call: "desc" a descriptor decoded (n its declared size),
\* "desc_error" struct.error raised decoding one, "handler" a handler invoked
\* (n the length of its payload), the exception a handler raised, "return".
Ev(ev, f, label, n) ==
    [ev |-> ev, call |-> f.call, depth |-> f.index, at |-> f.start,
     label |-> label, n |-> n]

CallArgs(blocks, data, index) ==
    [blocks |-> blocks, data |-> data, index |-> index]

Evs(msgs, f, label) == [i \in 1..Len(msgs) |-> Ev(msgs[i], f, label, 0)]

Top == stack[Len(stack)]

SingleKind(rule) == rule = OptSingle \/ rule = ReqSingle

\* the required rules with ReqMultiple forgotten
Required_single_only(rule) == rule = ReqSingle

Required(rule) == rule = ReqSingle \/ rule = ReqMultiple

\* the findings of the descriptor with "unexpected" kept for unknown labels
PresenceFindings_unknown_only(f, label) ==
    IF label \notin DOMAIN f.blocks
    THEN IF label \in KnownLabels THEN <<>>
         ELSE <<Ev("unexpected", f, label, 0)>>
    ELSE IF SingleKind(f.blocks[label]) /\ f.blocks_parsed[label]
    THEN <<Ev("max1", f, label, 0)>>
    ELSE <<>>

\* the findings of lines 189-197 for the descriptor just decoded
PresenceFindings(f, label) ==
    IF label \notin DOMAIN f.blocks
    THEN <<Ev("unexpected", f, label, 0)>>
    ELSE IF SingleKind(f.blocks[label]) /\ f.blocks_parsed[label]
    THEN <<Ev("max1", f, label, 0)>>
    ELSE <<>>

MarkParsed(f, label) ==
    IF label \in DOMAIN f.blocks
    THEN [f.blocks_parsed EXCEPT ![label] = TRUE]
    ELSE f.blocks_parsed

\* the payload handed to the handler: data[start + 8 : start + size]
Subblock(f, size) == Slice(f.data, f.start + 8, f.start + size)

\* what the dispatch of line 200 adds to the log
DispatchEvents(f, label, sub, r) ==
    (IF label \in KnownLabels
     THEN <<Ev("handler", f, label, Len(sub))>> ELSE <<>>)
    \o Evs(r.msgs, f, label)
    \o (IF r.raised # "none" THEN <<Ev(r.raised, f, label, 0)>> ELSE <<>>)

RECURSIVE SetToSeq(_)
SetToSeq(S) ==
    IF S = {} THEN <<>>
    ELSE LET m == CHOOSE x \in S : \A y \in S : x <= y
         IN  <<m>> \o SetToSeq(S \ {m})

\* lines 203-211: the findings after the loop
AfterLoop(f) ==
    (IF f.start # Len(f.data) THEN <<Ev("overrun", f, f.label, 0)>> ELSE <<>>)
    \o LET missing == {l \in DOMAIN f.blocks :
                          Required(f.blocks[l]) /\ ~f.blocks_parsed[l]}
           ms == SetToSeq(missing)
       IN  [i \in 1..Len(ms) |-> Ev("min1", f, ms[i], 0)]

\* One iteration of the while loop of parse_blocks, up to the return of a
\* leaf handler or the entry into the parse_blocks call of a container.
Iterate ==
    /\ status = "running"
    /\ stack # <<>>
    /\ Len(From(Top.data, Top.start)) > 0
    /\ Top.iters < MaxIters
    /\ LET f == Top
           rest == From(f.data, f.start)
       IN  IF ~Unpackable(8, rest)
           THEN /\ log' = Append(log, Ev("desc_error", f, -1, 0))
                /\ status' = "raised"
                /\ UNCHANGED <<stack, nextCall, calls>>
           ELSE LET label == U32At(rest, 0)
                    size  == U32At(rest, 4)
                    sub   == Subblock(f, size)
                    r     == process_block_by_label(label, sub)
                    g     == [f EXCEPT !.blocks_parsed = MarkParsed(f, label),
                                       !.label = label, !.size = size,
                                       !.iters = f.iters + 1]
                IN  /\ log' = log \o <<Ev("desc", f, label, size)>>
                                  \o PresenceFindings(f, label)
                                  \o DispatchEvents(f, label, sub, r)
                    /\ IF r.raised # "none"
                       THEN /\ status' = "raised"
                            /\ stack' = [stack EXCEPT ![Len(stack)] = g]
                            /\ UNCHANGED <<nextCall, calls>>
                       ELSE IF r.child # <<>>
                       THEN /\ stack' = Append(
                                   [stack EXCEPT ![Len(stack)] = g],
                                   Frame(nextCall, r.child[1].blocks,
                                         r.child[1].data, f.index + 1))
                            /\ nextCall' = nextCall + 1
                            /\ calls' = Append(calls,
                                   CallArgs(r.child[1].blocks, r.child[1].data,
                                            f.index + 1))
                            /\ UNCHANGED status
                       ELSE /\ stack' = [stack EXCEPT ![Len(stack)] =
                                            [g EXCEPT !.start = f.start + size]]
                            /\ UNCHANGED <<status, nextCall, calls>>
    /\ UNCHANGED <<argv, fileNo, proc, outcomes, harg, hres>>

\* The loop condition fails: the checks after the loop, then the return to
\* the container handler, which returns to line 201 of the calling frame.
Return ==
    /\ status = "running"
    /\ stack # <<>>
    /\ Len(From(Top.data, Top.start)) = 0
    /\ log' = log \o AfterLoop(Top) \o <<Ev("return", Top, Top.label, Top.start)>>
    /\ IF Len(stack) = 1
       THEN /\ stack' = <<>>
            /\ status' = "returned"
       ELSE /\ stack' = [SubSeq(stack, 1, Len(stack) - 1)
                            EXCEPT ![Len(stack) - 1].start =
                                stack[Len(stack) - 1].start
                                    + stack[Len(stack) - 1].size]
            /\ UNCHANGED status
    /\ UNCHANGED <<nextCall, calls, argv, fileNo, proc, outcomes, harg, hres>>

(***************************************************************************)
(* Encoders, used to build the inputs: the inverse of the decoding above.  *)
(***************************************************************************)
LE32(n) ==
    <<n % 256, (n \div 256) % 256, (n \div 65536) % 256, (n \div 16777216) % 256>>

Fill(n, b) == [i \in 1..n |-> b]

\* a block: descriptor (label, declared size) followed by its payload
Blk(label, size, payload) == LE32(label) \o LE32(size) \o payload

\* a block whose declared size is the size it has
W(label, payload) == Blk(label, 8 + Len(payload), payload)

RECURSIVE Concat(_)
Concat(ss) == IF ss = <<>> THEN <<>> ELSE Head(ss) \o Concat(Tail(ss))

SeqsUpTo(S, n) == UNION {[1..k -> S] : k \in 0..n}

VerticesOK == W(Vertices, LE32(1) \o LE32(32) \o LE32(256) \o Fill(32, 7))
VerticesBad == W(Vertices, LE32(2) \o LE32(32) \o LE32(256) \o Fill(63, 7))
FacesOK == W(Faces, LE32(1) \o Fill(12, 3))
MeshOK == W(Mesh, LE32(0) \o VerticesOK \o FacesOK)
PropertiesOK == W(Properties, LE32(3) \o <<97, 98, 0>>)
Unk35OK == W(Unk35, Fill(100, 0))
Unk36OK == W(Unk36, <<>>)
Unk38OK == W(Unk38, <<1>>)
Unk30OK == W(Unk30, LE32(1) \o MeshOK \o PropertiesOK \o Unk35OK \o Unk36OK)
BitmapOK ==
    W(Bitmap, LE32(0) \o <<0, 0, 0, 0>> \o LE32(1)
              \o LE32(1) \o LE32(1) \o <<97>>)
PteroMatOK ==
    W(PteroMat, LE32(0) \o LE32(65536) \o <<65, 66, 0, 0>> \o LE32(0)
                \o <<67, 68, 0, 0>> \o LE32(1) \o <<97>>
                \o LE32(65537) \o LE32(1) \o <<98>>)
MaterialOK == W(Material, LE32(2) \o BitmapOK \o PteroMatOK)
ObjectOK(children) == W(Object, LE32(0) \o LE32(1) \o <<111>> \o children)
ObjectFull ==
    ObjectOK(Unk30OK \o PropertiesOK \o Unk35OK \o Unk38OK \o MaterialOK
             \o ObjectOK(<<>>))
UserInfoOK ==
    W(UserInfo, LE32(2) \o LE32(1) \o LE32(0) \o <<117, 115>> \o Fill(62, 0)
                \o <<99>>)
UnknownLabel == 153
UnknownOK == W(UnknownLabel, <<1, 2>>)

\* Objects nested n deep, each holding only the next
NestHeader(size) == Blk(Object, size, LE32(1) \o LE32(0))

Nest(n) ==
    [i \in 1..(16 * n) |->
        NestHeader(16 * (n - ((i - 1) \div 16)))[((i - 1) % 16) + 1]]

\* blocks a span is built from, and the odd block or bytes one may hold
PlainBlocks == {Unk36OK, VerticesBad, UnknownOK, ObjectOK(<<>>)}

OddBlocks ==
    {<<>>,
     Blk(UnknownLabel, 0, <<>>),                \* declared size 0
     Blk(Unk36, 0, <<>>),
     Blk(Unk38, 3, <<>>),                       \* declared size below 8
     Blk(Unk36, 12, <<>>),                      \* declared size past the bytes
     Blk(Faces, 28, LE32(1) \o Fill(6, 3)),
     Blk(Object, 40, LE32(0) \o LE32(0)),
     W(Object, <<0, 0, 0, 0>>),                 \* payload below the fixed fields
     W(Object, LE32(0) \o LE32(1) \o <<200>>),  \* name that is not ASCII
     <<1, 2, 3>>,                               \* fewer bytes than a descriptor
     UserInfoOK,
     ObjectFull}

TestSchemas ==
    {RootSchema,
     (Unk36 :> ReqSingle) @@ (Vertices :> OptMultiple),
     (Unk36 :> OptSingle) @@ (Vertices :> ReqMultiple) @@ (Object :> OptMultiple),
     (Unk36 :> ReqSingle)}

\* spans of plain siblings, and spans holding one odd block, first or after
\* a plain sibling, last or before one
Spans ==
    {Concat(p) : p \in SeqsUpTo(PlainBlocks, MaxSiblings)}
    \cup {p \o o \o t : p \in PlainBlocks \cup {<<>>}, o \in OddBlocks,
                         t \in {<<>>, Unk36OK}}

ScanInputs ==
    {CallArgs(b, d, 0) : b \in TestSchemas, d \in Spans}
    \cup {CallArgs(RootSchema, Nest(NestLevels), 0),
          CallArgs(RootSchema, ObjectFull \o UserInfoOK, 0)}

NoArgv == [check |-> <<>>, extract |-> <<>>]

NoHandler == [label |-> -1, data |-> <<>>]

\* parse_blocks called on one span with one schema
ScanInit ==
    /\ \E in \in ScanInputs :
          /\ stack = <<Frame(0, in.blocks, in.data, in.index)>>
          /\ calls = <<in>>
    /\ log = <<>>
    /\ status = "running"
    /\ nextCall = 1
    /\ argv = NoArgv
    /\ fileNo = 0
    /\ proc = "idle"
    /\ outcomes = <<>>
    /\ harg = NoHandler
    /\ hres = <<>>

ScanNext == Iterate \/ Return

Spec == ScanInit /\ [][ScanNext]_vars

(***************************************************************************)
(* Reading the log                                                         *)
(***************************************************************************)
\* the descriptors decoded, as positions in the log
Descs == {i \in DOMAIN log : log[i].ev = "desc"}

BlocksOf(i) == calls[log[i].call + 1].blocks

SpanOf(i) == calls[log[i].call + 1].data

\* the entries of the same call that follow entry i
Later(i) == {j \in DOMAIN log : j > i /\ log[j].call = log[i].call}

\* what the iteration that decoded descriptor i logged after it
BlockEvs(i) ==
    {j \in Later(i) :
        /\ log[j].ev \notin {"desc", "desc_error", "overrun", "min1", "return"}
        /\ \A k \in Later(i) : k < j => log[k].ev # "desc"}

\* the entries where the call of descriptor i next shows its cursor: the
\* next descriptor it decodes, or its return
NextCursor(i) ==
    {j \in Later(i) :
        /\ log[j].ev \in {"desc", "return"}
        /\ \A k \in Later(i) : k < j => log[k].ev \notin {"desc", "return"}}

EvsOf(i, ev) == {j \in BlockEvs(i) : log[j].ev = ev}

Count(c, ev, l) ==
    Cardinality({i \in DOMAIN log :
                    log[i].call = c /\ log[i].ev = ev /\ log[i].label = l})

HasReturned(c) == \E i \in DOMAIN log : log[i].call = c /\ log[i].ev = "return"

Unexpected(i) == log[i].label \notin DOMAIN BlocksOf(i)

\* C1 as stated: for every block whose label is not a key of the active
\* schema, unknown or known, exactly one "unexpected block" finding is
\* emitted, nothing else is logged for the block (no handler is invoked on
\* its payload, no handler diagnostics), and the cursor advances by the
\* declared size.
C1_NoHandlerForUnexpected ==
    \A i \in Descs : Unexpected(i) =>
        /\ Cardinality(EvsOf(i, "unexpected")) = 1
        /\ \A j \in BlockEvs(i) : log[j].ev \in {"unexpected", "unknown_block"}
        /\ \A j \in NextCursor(i) : log[j].at = log[i].at + log[i].n

\* C1 as the code has it: for every block whose label is not a key of the
\* active schema exactly one "unexpected block" finding is emitted; a label
\* that is none of the 13 known kinds gets one "unknown block" warning and
\* no handler, while a known kind that is not allowed in this scope is still
\* dispatched to its handler, once, on the payload data[start+8:start+size];
\* whenever the scan of the span goes on, the cursor has advanced by the
\* declared size.
C1_UnexpectedStillDispatched ==
    \A i \in Descs : Unexpected(i) =>
        /\ Cardinality(EvsOf(i, "unexpected")) = 1
        /\ IF log[i].label \in KnownLabels
           THEN /\ Cardinality(EvsOf(i, "handler")) = 1
                /\ EvsOf(i, "unknown_block") = {}
                /\ \A j \in EvsOf(i, "handler") :
                      log[j].n = Len(Slice(SpanOf(i), log[i].at + 8,
                                           log[i].at + log[i].n))
           ELSE /\ EvsOf(i, "handler") = {}
                /\ Cardinality(EvsOf(i, "unknown_block")) = 1
                /\ \A j \in BlockEvs(i) :
                      log[j].ev \in {"unexpected", "unknown_block"}
        /\ \A j \in NextCursor(i) : log[j].at = log[i].at + log[i].n

\* a known block that the schema does not allow was handed to its handler,
\* which logged an error, and the next sibling was then decoded
C1_Witness ==
    \E i \in Descs :
        /\ Unexpected(i)
        /\ log[i].label = Vertices
        /\ EvsOf(i, "block_size") # {}
        /\ \E j \in NextCursor(i) : log[j].ev = "desc"

\* C2: in every call of parse_blocks, each label with a single-kind rule has
\* one "max 1" finding per occurrence after the first, and every occurrence
\* of a known label of the schema is dispatched to its handler; once the
\* call has returned there is one "min 1" finding for each label with a
\* required rule that never occurred; there is no other cardinality finding.
C2_CardinalityFindings ==
    \A c \in 1..Len(calls) :
        LET blocks == calls[c].blocks
            seen == {log[i].label : i \in {j \in Descs : log[j].call = c - 1}}
        IN  \A l \in DOMAIN blocks \cup seen :
               LET occ == Count(c - 1, "desc", l)
               IN  /\ Count(c - 1, "max1", l) =
                         IF /\ l \in DOMAIN blocks
                            /\ blocks[l] \in {OptSingle, ReqSingle}
                            /\ occ > 1
                         THEN occ - 1 ELSE 0
                   /\ (l \in DOMAIN blocks /\ l \in KnownLabels)
                         => Count(c - 1, "handler", l) = occ
                   /\ Count(c - 1, "min1", l) =
                         IF /\ HasReturned(c - 1)
                            /\ l \in DOMAIN blocks
                            /\ blocks[l] \in {ReqSingle, ReqMultiple}
                            /\ occ = 0
                         THEN 1 ELSE 0

\* a returned call whose schema requires a label that never occurred and
\* restricts to one a label that occurred three times
C2_Witness ==
    \E c \in 1..Len(calls) :
        /\ HasReturned(c - 1)
        /\ \E a \in DOMAIN calls[c].blocks :
              /\ calls[c].blocks[a] = ReqMultiple
              /\ Count(c - 1, "desc", a) = 0
              /\ Count(c - 1, "min1", a) = 1
        /\ \E b \in DOMAIN calls[c].blocks :
              /\ calls[c].blocks[b] = OptSingle
              /\ Count(c - 1, "desc", b) = 3
              /\ Count(c - 1, "max1", b) = 2
              /\ Count(c - 1, "handler", b) = 3

Overruns(i) == log[i].at + log[i].n > Len(SpanOf(i))

\* C3: when the descriptor decoded at the cursor declares a size with
\* cursor + size beyond the span, the handler of that block is not invoked
\* on the truncated payload, no further descriptor is decoded from the
\* span, and the structural error is reported.
C3_OverrunStopsScan ==
    \A i \in Descs : Overruns(i) =>
        /\ EvsOf(i, "handler") = {}
        /\ \A j \in Later(i) : log[j].ev # "desc"
        /\ HasReturned(log[i].call) => \E j \in Later(i) : log[j].ev = "overrun"

\* C4: parse_blocks never raises to its caller.
C4_NeverRaises == status # "raised"

\* C5: each iteration of the loop of parse_blocks strictly advances the
\* cursor: a descriptor decoded later in the same call is decoded at a
\* greater offset.
C5_CursorAdvances ==
    \A i \in Descs : \A j \in Later(i) :
        log[j].ev = "desc" => log[j].at > log[i].at

\* C6: the nesting depth of the recursive parse (the index of a parse_blocks
\* call) never exceeds the maximum of 64.
C6_DepthBounded == \A k \in DOMAIN stack : stack[k].index <= 64

(***************************************************************************)
(* processFile and the loop of __main__.  A file is the bytes read from    *)
(* it: head holds the bytes at offsets below 0x10, preview counts the      *)
(* bytes present at offsets 0x10..0x300f (their values are only handed to  *)
(* savePreview), body holds the bytes from offset 0x3010 on.               *)
(***************************************************************************)
File(exists, head, preview, body) ==
    [exists |-> exists, head |-> head, preview |-> preview, body |-> body]

\* len(self.data)
FileLen(f) == Len(f.head) + f.preview + Len(f.body)

\* the calls of processFile that __main__ makes, in order
Jobs(a) ==
    [i \in 1..Len(a.check) |-> [file |-> a.check[i], extract |-> FALSE]]
    \o [i \in 1..Len(a.extract) |-> [file |-> a.extract[i], extract |-> TRUE]]

\* the warnings of parse_header
HeaderWarnings(head) ==
    (IF Slice(head, 4, 9) # HeaderVer THEN <<"version">> ELSE <<>>)
    \o (IF Slice(head, 13, 16) # <<0, 0, 0>> THEN <<"trailing">> ELSE <<>>)

\* processFile up to the call of parse_data: how it ends there ("scan" when
\* it goes on into parse_data) and what it logged
processFile(f, extract) ==
    IF ~f.exists THEN [how |-> "not_found", msgs |-> <<"not_found">>]
    ELSE IF ~Unpackable(HeaderLen, f.head)
    THEN [how |-> "struct.error", msgs |-> <<>>]
    ELSE IF Slice(f.head, 0, 4) # HeaderSig
    THEN [how |-> "bad_signature", msgs |-> <<"bad_signature">>]
    ELSE IF FileLen(f) < PreviewEnd
    THEN [how |-> "missing_preview",
          msgs |-> HeaderWarnings(f.head) \o <<"missing_preview">>]
    ELSE IF extract
    THEN [how |-> "extracted", msgs |-> HeaderWarnings(f.head)]
    ELSE [how |-> "scan", msgs |-> HeaderWarnings(f.head)]

FileEv(ev) ==
    [ev |-> ev, call |-> -1, depth |-> 0, at |-> 0, label |-> -1, n |-> fileNo + 1]

\* processFile is called on the next file: everything up to parse_data
StartFile ==
    /\ proc = "main"
    /\ fileNo < Len(Jobs(argv))
    /\ LET job == Jobs(argv)[fileNo + 1]
           r   == processFile(job.file, job.extract)
       IN  /\ fileNo' = fileNo + 1
           /\ log' = log \o [i \in 1..Len(r.msgs) |-> FileEv(r.msgs[i])]
           /\ IF r.how = "scan"
              THEN /\ stack' = <<Frame(nextCall, RootSchema, job.file.body, 0)>>
                   /\ calls' = Append(calls, CallArgs(RootSchema, job.file.body, 0))
                   /\ nextCall' = nextCall + 1
                   /\ status' = "running"
                   /\ proc' = "scanning"
                   /\ UNCHANGED outcomes
              ELSE /\ outcomes' = Append(outcomes, r.how)
                   /\ proc' = IF r.how = "struct.error" THEN "crashed" ELSE "main"
                   /\ UNCHANGED <<stack, calls, nextCall, status>>
    /\ UNCHANGED <<argv, harg, hres>>

\* parse_data is over: it returned, or raised an exception that neither
\* except clause of processFile catches
FinishFile ==
    /\ proc = "scanning"
    /\ status \in {"returned", "raised"}
    /\ outcomes' = Append(outcomes,
                          IF status = "returned" THEN "checked" ELSE "scan_error")
    /\ proc' = IF status = "returned" THEN "main" ELSE "crashed"
    /\ status' = "idle"
    /\ stack' = <<>>
    /\ UNCHANGED <<log, nextCall, calls, argv, fileNo, harg, hres>>

\* the end of __main__
Exit ==
    /\ proc = "main"
    /\ fileNo = Len(Jobs(argv))
    /\ proc' = "exited"
    /\ UNCHANGED <<stack, log, status, nextCall, calls, argv, fileNo, outcomes,
                   harg, hres>>

GoodHead == HeaderSig \o HeaderVer \o <<1, 2, 3, 4>> \o <<0, 0, 0>>
PreviewLen == PreviewEnd - HeaderLen

GoodFile(body) == File(TRUE, GoodHead, PreviewLen, body)

CheckFiles ==
    {File(FALSE, <<>>, 0, <<>>),                              \* no such file
     GoodFile(ObjectOK(<<>>) \o UserInfoOK),
     GoodFile(<<>>),
     GoodFile(<<1, 2, 3>>),
     GoodFile(W(Object, LE32(0) \o LE32(1) \o <<200>>)),
     GoodFile(Blk(UnknownLabel, 0, <<>>)),
     File(TRUE, <<66, 69, 83, 1>> \o Fill(12, 0), PreviewLen, Unk36OK),
     File(TRUE, <<66, 69, 83, 0, 50, 49, 48, 48, 0, 0, 0, 0, 0, 0, 0, 9>>,
          PreviewLen, <<>>),
     File(TRUE, <<>>, 0, <<>>),
     File(TRUE, SubSeq(GoodHead, 1, 10), 0, <<>>),
     File(TRUE, <<1, 2, 3>>, 0, <<>>),
     File(TRUE, GoodHead, 0, <<>>),
     File(TRUE, GoodHead, PreviewLen - 1, <<>>)}

ExtractFiles ==
    {File(FALSE, <<>>, 0, <<>>), GoodFile(<<>>), File(TRUE, GoodHead, 0, <<>>),
     File(TRUE, SubSeq(GoodHead, 1, 10), 0, <<>>),
     File(TRUE, <<66, 69, 83, 1>> \o Fill(12, 0), PreviewLen, <<>>)}

Commands ==
    {[check |-> c, extract |-> x] :
        c \in SeqsUpTo(CheckFiles, MaxFiles),
        x \in {<<>>} \cup {<<f>> : f \in ExtractFiles}}
    \ {NoArgv}

\* a run of the command line with at least one of --check, --extract-preview
FileInit ==
    /\ argv \in Commands
    /\ stack = <<>>
    /\ calls = <<>>
    /\ log = <<>>
    /\ status = "idle"
    /\ nextCall = 0
    /\ fileNo = 0
    /\ proc = "main"
    /\ outcomes = <<>>
    /\ harg = NoHandler
    /\ hres = <<>>

FileNext == StartFile \/ Iterate \/ Return \/ FinishFile \/ Exit

FileSpec == FileInit /\ [][FileNext]_vars

(***************************************************************************)
(* One handler applied to one payload                                      *)
(***************************************************************************)
VerticesPayload(count, size, vType, n) ==
    LE32(count) \o LE32(size) \o LE32(vType) \o Fill(n, 7)

\* a Bitmap payload with one map record per coord of coords, bType naming
\* the first maps
BitmapPayload(coords) ==
    LE32(0) \o <<0, 0, 0, 0>> \o LE32(2 ^ Len(coords) - 1)
    \o Concat([i \in 1..Len(coords) |-> LE32(1) \o LE32(coords[i]) \o <<97>>])

PteroPayload(tSides, pType, tail) ==
    LE32(tSides) \o LE32(pType) \o <<65, 66, 0, 0>> \o LE32(0)
    \o <<67, 68, 0, 1>> \o LE32(1) \o <<97>> \o tail

VertexInputs ==
    {[label |-> Vertices, data |-> VerticesPayload(c, z, t, n)] :
        c \in 0..MaxCount, z \in {24, 31, 32, 40}, t \in {0, 256, 257, 512, 65792},
        n \in 0..MaxVertexBytes}
    \cup {[label |-> Vertices, data |-> Fill(n, 0)] : n \in 0..11}

BitmapInputs ==
    {[label |-> Bitmap, data |-> BitmapPayload(<<c>>)] :
        c \in (0..MaxCoord) \cup {c + 1048576 : c \in 0..MaxCoord}}
    \cup {[label |-> Bitmap, data |-> BitmapPayload(<<c, d>>)] :
             c \in {0, 1, 4, 5, 8, 10}, d \in {0, 2, 8, 10, 15}}
    \cup {[label |-> Bitmap, data |-> d] :
             d \in {<<>>, Fill(12, 0), LE32(0) \o LE32(0) \o LE32(4352),
                    LE32(0) \o LE32(0) \o LE32(256) \o LE32(0) \o LE32(0) \o <<9>>,
                    LE32(0) \o LE32(0) \o LE32(1) \o LE32(2) \o LE32(0) \o <<97>>,
                    LE32(0) \o LE32(0) \o LE32(1) \o LE32(1) \o LE32(0) \o <<200>>,
                    LE32(0) \o LE32(0) \o LE32(1) \o <<1, 0>>}}

OtherInputs ==
    {[label |-> PteroMat, data |-> PteroPayload(s, t, x)] :
        s \in {0, 1, 2}, t \in {0, 65536, 2097152, 1, 196608},
        x \in {<<>>, LE32(65537) \o LE32(1) \o <<98>>,
               LE32(2097156) \o LE32(0),
               LE32(65536) \o LE32(0) \o LE32(131074) \o LE32(1) \o <<200>>}}
    \cup {[label |-> PteroMat, data |-> Fill(n, 0)] : n \in {0, 20, 24}}
    \cup {[label |-> Faces, data |-> LE32(c) \o Fill(n, 3)] :
             c \in 0..1, n \in {0, 11, 12}}
    \cup {[label |-> Properties, data |-> LE32(c) \o d] :
             c \in 0..3, d \in {<<>>, <<97, 0>>, <<97, 200, 0>>}}
    \cup {[label |-> Unk35, data |-> Fill(n, 0)] : n \in {0, 11, 12, 100, 101}}
    \cup {[label |-> UserInfo, data |-> LE32(a) \o LE32(b) \o LE32(0) \o Fill(n, 65)] :
             a \in {0, 64, 65}, b \in {0, 1}, n \in {0, 64, 65}}
    \cup {[label |-> l, data |-> Fill(n, 0)] :
             l \in {Object, Unk30, Mesh, Material, Unk36, Unk38, UnknownLabel},
             n \in {0, 3, 4, 8}}

HandlerInit ==
    /\ harg \in VertexInputs \cup BitmapInputs \cup OtherInputs
    /\ hres = <<>>
    /\ stack = <<>>
    /\ calls = <<>>
    /\ log = <<>>
    /\ status = "idle"
    /\ nextCall = 0
    /\ argv = NoArgv
    /\ fileNo = 0
    /\ proc = "idle"
    /\ outcomes = <<>>

\* process_block_by_label is called on the payload
CallHandler ==
    /\ harg # NoHandler
    /\ hres = <<>>
    /\ hres' = <<process_block_by_label(harg.label, harg.data)>>
    /\ UNCHANGED <<stack, log, status, nextCall, calls, argv, fileNo, proc,
                   outcomes, harg>>

HandlerSpec == HandlerInit /\ [][CallHandler]_vars

(***************************************************************************)
(* Claims about processFile and the batch                                  *)
(***************************************************************************)
\* processFile ended the file before parse_data or savePreview
Aborted(how) == how \in {"bad_signature", "missing_preview", "struct.error"}

\* the fatal conditions as C7 lists them
FatalAsStated(job) ==
    \/ Slice(job.file.head, 0, 4) # HeaderSig
    \/ job.extract /\ FileLen(job.file) < PreviewEnd
    \/ ~job.extract /\ FileLen(job.file) < HeaderLen

\* C7: the processing of a file that was read is aborted exactly when the
\* header magic is not 'BES\0', or, in extract mode, the buffer is shorter
\* than 0x3010 bytes, or, in check mode, shorter than the 16-byte header; a
\* checked buffer with the right magic and 16 to 0x300f bytes is scanned.
C7_FatalConditions ==
    \A k \in DOMAIN outcomes :
        Jobs(argv)[k].file.exists =>
            (Aborted(outcomes[k]) <=> FatalAsStated(Jobs(argv)[k]))

\* C8: in a batch --check f1 ... fn every file is processed whatever
\* happened to the files before it: when the run is over, by exit or by an
\* exception no one caught, processFile has been called on every file.
C8_BatchCompletes ==
    proc \in {"exited", "crashed"} => fileNo >= Len(argv.check)

(***************************************************************************)
(* Claims about single handlers                                            *)
(***************************************************************************)
\* what C9 gives for the U axis and the V axis of coordFlags
StatedU(coord) ==
    CASE BitAnd(coord, 5) = 1 -> [notes |-> <<"U tile">>, errors |-> 0]
      [] BitAnd(coord, 5) = 4 -> [notes |-> <<"U mirror">>, errors |-> 0]
      [] BitAnd(coord, 5) = 5 -> [notes |-> <<>>, errors |-> 1]
      [] OTHER                -> [notes |-> <<>>, errors |-> 0]

StatedV(coord) ==
    CASE BitAnd(coord, 10) = 2  -> [notes |-> <<"V tile">>, errors |-> 0]
      [] BitAnd(coord, 10) = 8  -> [notes |-> <<"V mirror">>, errors |-> 0]
      [] BitAnd(coord, 10) = 10 -> [notes |-> <<>>, errors |-> 1]
      [] OTHER                  -> [notes |-> <<>>, errors |-> 0]

\* C9: for each map record decoded by parse_block_bitmap the U axis (mask
\* 0x5) gives nothing for 0x0, "U tile" for 0x1, "U mirror" for 0x4 and one
\* "unknown coordinate setting" error for 0x5; the V axis (mask 0xA) gives
\* nothing for 0x0, "V tile" for 0x2, "V mirror" for 0x8 and one error for
\* 0xA; the two axes are classified independently.
C9_CoordClassification ==
    (hres # <<>> /\ harg.label = Bitmap) =>
        \A k \in DOMAIN hres[1].records :
            LET r == hres[1].records[k]
            IN  /\ r.notes = StatedU(r.coord).notes \o StatedV(r.coord).notes
                /\ r.msgs = Fill(StatedU(r.coord).errors
                                 + StatedV(r.coord).errors, "unknown_coord")

VCount == U32At(harg.data, 0)
VStride == U32At(harg.data, 4)
VTexCount == (U32At(harg.data, 8) \div 256) % 256
VBytes == Len(harg.data) - 12
VerticesDecoded == hres # <<>> /\ harg.label = Vertices /\ Len(harg.data) >= 12
Times(msgs, m) == Cardinality({i \in DOMAIN msgs : msgs[i] = m})

\* C10 as stated: parse_block_vertices reports a stride error exactly when
\* stride # 24 + 8*texCount and a size-mismatch error exactly when the
\* vertex bytes after the three fixed fields # stride*count, the two checks
\* being independent, and reports nothing else.
C10_IndependentChecks ==
    VerticesDecoded =>
        /\ Times(hres[1].msgs, "vertex_size") =
              (IF VStride # 24 + 8 * VTexCount THEN 1 ELSE 0)
        /\ Times(hres[1].msgs, "block_size") =
              (IF VBytes # VStride * VCount THEN 1 ELSE 0)
        /\ Len(hres[1].msgs) = Times(hres[1].msgs, "vertex_size")
                               + Times(hres[1].msgs, "block_size")

\* C10 as the code has it: with the three fixed fields decoded,
\* parse_block_vertices returns, reports a stride error exactly when
\* stride # 24 + 8*texCount, reports a size-mismatch error exactly when the
\* stride is right and the vertex bytes # stride*count, and reports nothing
\* else: a block violating both gets the stride error alone.
C10_SizeCheckedWhenStrideRight ==
    VerticesDecoded =>
        /\ hres[1].raised = "none"
        /\ Times(hres[1].msgs, "vertex_size") =
              (IF VStride # 24 + 8 * VTexCount THEN 1 ELSE 0)
        /\ Times(hres[1].msgs, "block_size") =
              (IF VStride = 24 + 8 * VTexCount /\ VBytes # VStride * VCount
               THEN 1 ELSE 0)
        /\ Len(hres[1].msgs) = Times(hres[1].msgs, "vertex_size")
                               + Times(hres[1].msgs, "block_size")

\* a Vertices block with the wrong stride and the wrong number of vertex
\* bytes was handled and got the stride error alone
C10_Witness ==
    /\ VerticesDecoded
    /\ VStride # 24 + 8 * VTexCount
    /\ VBytes # VStride * VCount
    /\ hres[1].msgs = <<"vertex_size">>

====
